---- MODULE Spec2Model ----
(***************************************************************************)
(* Model of help.py, the one-shot admin JWT minter.                         *)
(*                                                                         *)
(* The script is a straight line: read the clock for the expiration base,  *)
(* read the clock again for issued-at, build the payload, sign it with     *)
(* jwt.encode, print a 17-line report.  The program counter pc is the      *)
(* number of the source line that runs next.  The environment is the       *)
(* system clock (which moves between statements) and the local time zone   *)
(* (which datetime.timestamp() applies to the naive utcnow() values).      *)
(*                                                                         *)
(* A datetime is [sec, us]: whole seconds since 1970-01-01T00:00:00 of its *)
(* naive calendar fields, and its microsecond field.                       *)
(* Non-ASCII glyphs of the printed text are named in the "mark" field of a *)
(* line (lock, calendar, bullet, siren) instead of being spelled.          *)
(***************************************************************************)
EXTENDS Integers, Sequences, FiniteSets

VARIABLES clock, tz, ticks, pc, expiration_time, issued_at, payload, token,
          stdout, stderr, exit_code

vars == <<clock, tz, ticks, pc, expiration_time, issued_at, payload, token,
          stdout, stderr, exit_code>>

-----------------------------------------------------------------------------
(* Bounds of the model *)

\* how many times the clock is moved by the environment during one run
MaxTicks == 2

-----------------------------------------------------------------------------
(* Program constants *)

secret_key == "your_super_secret_jwt_key_here_make_it_long_and_secure_2024"

algorithm == "HS256"

user_data == [user_id |-> "admin", username |-> "admin@xeno.com",
              email |-> "admin@xeno.com", role |-> "admin"]

\* timedelta(days=365)
ValidityDays == 365

SecondsPerDay == 86400

MicrosPerSecond == 1000000

\* "="*60
BannerWidth == 60

-----------------------------------------------------------------------------
(* Environment: system clock and local time zone *)

\* 1970-01-01T00:00:01Z (a machine whose clock was never set),
\* 2024-01-01T00:00:00Z, and 2024-03-09T12:00:00Z (the day before US DST
\* starts; 365 days later, 2025-03-09T12:00:00, is the day US DST starts)
ClockSeconds == {1, 1704067200, 1709985600}

ClockMicros == {0, 500000, 999999}

\* what the clock can do between two statements, as <<seconds, microseconds>>:
\* advance a microsecond, half a second, a second; be stepped back a second;
\* be stepped forward 366 days (a clock set while the script runs)
ClockSteps == {<<0, 1>>, <<0, 500000>>, <<1, 0>>, <<-1, 0>>,
               <<366 * SecondsPerDay, 0>>}

\* a time zone: its standard and daylight offsets east of UTC in seconds, and
\* the wall-clock intervals [from, to) in which daylight time applies
UTC == [name |-> "UTC", std |-> 0, dst |-> 0, daylight |-> {}]

Kolkata == [name |-> "Asia/Kolkata", std |-> 19800, dst |-> 19800,
            daylight |-> {}]

NewYork == [name |-> "America/New_York", std |-> -18000, dst |-> -14400,
            daylight |-> {<<1710036000, 1730599200>>,
                          <<1741485600, 1762048800>>,
                          <<1772935200, 1793498400>>,
                          <<1804989600, 1825552800>>,
                          <<1836439200, 1857002400>>}]

Zones == {UTC, Kolkata, NewYork}

\* the UTC offset a zone applies to a naive wall-clock second
UtcOffset(zone, wall) ==
    IF \E iv \in zone.daylight : iv[1] <= wall /\ wall < iv[2]
    THEN zone.dst ELSE zone.std

\* the clock moved by a step, microseconds carried into seconds
Advance(c, step) ==
    LET us == c.us + step[2]
    IN  [sec |-> c.sec + step[1] + us \div MicrosPerSecond,
         us  |-> us % MicrosPerSecond]

-----------------------------------------------------------------------------
(* Library functions as the script uses them *)

\* datetime.utcnow(): the clock as a naive datetime
utcnow == clock

\* datetime + timedelta(days=n): naive calendar arithmetic
PlusDays(dt, n) == [sec |-> dt.sec + n * SecondsPerDay, us |-> dt.us]

\* naive datetime.timestamp(): the datetime is read as LOCAL time; the result
\* is the float s + us/1e6, kept here as [s, us] with s the whole seconds
timestamp(dt) == [s |-> dt.sec - UtcOffset(tz, dt.sec), us |-> dt.us]

\* int() replaced by round(): nearest whole second
int_Rounds(ts) == IF ts.us >= 500000 THEN ts.s + 1 ELSE ts.s

\* int(float): truncation toward zero
int(ts) == IF ts.s < 0 /\ ts.us > 0 THEN ts.s + 1 ELSE ts.s

\* jwt.encode(payload, key, algorithm): header, claims and a signature under
\* the key, kept symbolic
jwt_encode(p, key, alg) ==
    [header |-> [alg |-> alg, typ |-> "JWT"], claims |-> p,
     signature |-> [key |-> key, alg |-> alg]]

-----------------------------------------------------------------------------
(* Values not yet assigned *)

NoDatetime == [sec |-> 0, us |-> 0, unset |-> TRUE]

NoPayload == [unset |-> TRUE]

NoToken == [unset |-> TRUE]

\* no exit status while the process runs
Running == -1

-----------------------------------------------------------------------------
(* The script *)

\* lines 20-27 with "sub" taken from the username instead of the user_id
BuildPayload_SubFromUsername(ud, exp_dt, iat_dt) ==
    [sub      |-> ud.username,
     email    |-> ud.email,
     username |-> ud.username,
     role     |-> ud.role,
     exp      |-> int(timestamp(exp_dt)),
     iat      |-> int(timestamp(iat_dt))]

\* lines 20-27
BuildPayload(ud, exp_dt, iat_dt) ==
    [sub      |-> ud.user_id,
     email    |-> ud.email,
     username |-> ud.username,
     role     |-> ud.role,
     exp      |-> int(timestamp(exp_dt)),
     iat      |-> int(timestamp(iat_dt))]

NoArg == [kind |-> "none"]

Literal(mark, text) == [mark |-> mark, text |-> text, arg |-> NoArg]

Repeat(ch, n) == [mark |-> "", text |-> ch, arg |-> [kind |-> "times", n |-> n]]

Format(mark, text, arg) == [mark |-> mark, text |-> text, arg |-> arg]

StrArg(s) == [kind |-> "str", s |-> s]

DatetimeArg(dt) == [kind |-> "datetime", sec |-> dt.sec, us |-> dt.us]

TokenArg(t) == [kind |-> "token", tok |-> t]

FirstPrint == 32

LastPrint == 48

\* the report with the "Expires At" line printed before the "Issued At" line
PrintLine_ExpiryFirst(n) ==
    CASE n = 32 -> Repeat("=", BannerWidth)
      [] n = 33 -> Literal("lock", " FRESH JWT TOKEN GENERATED")
      [] n = 34 -> Repeat("=", BannerWidth)
      [] n = 35 -> Format("", "Token: ", TokenArg(token))
      [] n = 36 -> Literal("", "")
      [] n = 37 -> Literal("calendar", " Token Details:")
      [] n = 39 -> Format("bullet", " Issued At: ", DatetimeArg(issued_at))
      [] n = 38 -> Format("bullet", " Expires At: ", DatetimeArg(expiration_time))
      [] n = 40 -> Literal("bullet", " Valid For: 365 days")
      [] n = 41 -> Format("bullet", " User: ", StrArg(user_data.email))
      [] n = 42 -> Format("bullet", " Role: ", StrArg(user_data.role))
      [] n = 43 -> Literal("", "")
      [] n = 44 -> Literal("siren", " IMPORTANT:")
      [] n = 45 -> Literal("", "1. Use this as your ADMIN_JWT_TOKEN in Railway environment variables")
      [] n = 46 -> Literal("", "2. Make sure JWT_SECRET matches the secret_key used here")
      [] n = 47 -> Literal("", "3. Remove the old expired ADMIN_JWT_TOKEN from Railway")
      [] n = 48 -> Repeat("=", BannerWidth)

\* the report with "Issued At" formatted from a fresh datetime.utcnow()
PrintLine_ReadsClockAgain(n) ==
    CASE n = 32 -> Repeat("=", BannerWidth)
      [] n = 33 -> Literal("lock", " FRESH JWT TOKEN GENERATED")
      [] n = 34 -> Repeat("=", BannerWidth)
      [] n = 35 -> Format("", "Token: ", TokenArg(token))
      [] n = 36 -> Literal("", "")
      [] n = 37 -> Literal("calendar", " Token Details:")
      [] n = 38 -> Format("bullet", " Issued At: ", DatetimeArg(utcnow))
      [] n = 39 -> Format("bullet", " Expires At: ", DatetimeArg(expiration_time))
      [] n = 40 -> Literal("bullet", " Valid For: 365 days")
      [] n = 41 -> Format("bullet", " User: ", StrArg(user_data.email))
      [] n = 42 -> Format("bullet", " Role: ", StrArg(user_data.role))
      [] n = 43 -> Literal("", "")
      [] n = 44 -> Literal("siren", " IMPORTANT:")
      [] n = 45 -> Literal("", "1. Use this as your ADMIN_JWT_TOKEN in Railway environment variables")
      [] n = 46 -> Literal("", "2. Make sure JWT_SECRET matches the secret_key used here")
      [] n = 47 -> Literal("", "3. Remove the old expired ADMIN_JWT_TOKEN from Railway")
      [] n = 48 -> Repeat("=", BannerWidth)

\* the argument of the print statement at source line n
PrintLine(n) ==
    CASE n = 32 -> Repeat("=", BannerWidth)
      [] n = 33 -> Literal("lock", " FRESH JWT TOKEN GENERATED")
      [] n = 34 -> Repeat("=", BannerWidth)
      [] n = 35 -> Format("", "Token: ", TokenArg(token))
      [] n = 36 -> Literal("", "")
      [] n = 37 -> Literal("calendar", " Token Details:")
      [] n = 38 -> Format("bullet", " Issued At: ", DatetimeArg(issued_at))
      [] n = 39 -> Format("bullet", " Expires At: ", DatetimeArg(expiration_time))
      [] n = 40 -> Literal("bullet", " Valid For: 365 days")
      [] n = 41 -> Format("bullet", " User: ", StrArg(user_data.email))
      [] n = 42 -> Format("bullet", " Role: ", StrArg(user_data.role))
      [] n = 43 -> Literal("", "")
      [] n = 44 -> Literal("siren", " IMPORTANT:")
      [] n = 45 -> Literal("", "1. Use this as your ADMIN_JWT_TOKEN in Railway environment variables")
      [] n = 46 -> Literal("", "2. Make sure JWT_SECRET matches the secret_key used here")
      [] n = 47 -> Literal("", "3. Remove the old expired ADMIN_JWT_TOKEN from Railway")
      [] n = 48 -> Repeat("=", BannerWidth)

Init ==
    /\ clock \in [sec : ClockSeconds, us : ClockMicros]
    /\ tz \in Zones
    /\ ticks = 0
    /\ exit_code = Running
    /\ pc = 17
    /\ expiration_time = NoDatetime
    /\ issued_at = NoDatetime
    /\ payload = NoPayload
    /\ token = NoToken
    /\ stdout = <<>>
    /\ stderr = <<>>
    /\ exit_code = Running

\* the environment moves the clock while the process runs
Tick ==
    /\ exit_code = Running
    /\ ticks < MaxTicks
    /\ \E step \in ClockSteps : clock' = Advance(clock, step)
    /\ ticks' = ticks + 1
    /\ UNCHANGED <<tz, pc, expiration_time, issued_at, payload, token,
                   stdout, stderr, exit_code>>

\* line 17: expiration_time = datetime.utcnow() + timedelta(days=365)
Line17 ==
    /\ exit_code = Running
    /\ pc = 17
    /\ expiration_time' = PlusDays(utcnow, ValidityDays)
    /\ pc' = 18
    /\ UNCHANGED <<clock, tz, ticks, issued_at, payload, token, stdout,
                   stderr, exit_code>>

\* line 18: issued_at = datetime.utcnow()
Line18 ==
    /\ exit_code = Running
    /\ pc = 18
    /\ issued_at' = utcnow
    /\ pc' = 20
    /\ UNCHANGED <<clock, tz, ticks, expiration_time, payload, token, stdout,
                   stderr, exit_code>>

\* lines 20-27: payload = {...}
Line20 ==
    /\ exit_code = Running
    /\ pc = 20
    /\ payload' = BuildPayload(user_data, expiration_time, issued_at)
    /\ pc' = 30
    /\ UNCHANGED <<clock, tz, ticks, expiration_time, issued_at, token,
                   stdout, stderr, exit_code>>

\* line 30: token = jwt.encode(...) returns
SignReturns ==
    /\ exit_code = Running
    /\ pc = 30
    /\ token' = jwt_encode(payload, secret_key, algorithm)
    /\ pc' = FirstPrint
    /\ UNCHANGED <<clock, tz, ticks, expiration_time, issued_at, payload,
                   stdout, stderr, exit_code>>

\* line 30 with the first banner printed before jwt.encode is called
SignRaises_BannerFirst ==
    /\ exit_code = Running
    /\ pc = 30
    /\ stdout' = Append(stdout, Repeat("=", BannerWidth))
    /\ stderr' = Append(stderr, "Traceback")
    /\ exit_code' = 1
    /\ UNCHANGED <<clock, tz, ticks, pc, expiration_time, issued_at, payload,
                   token>>

\* line 30: jwt.encode(...) raises; nothing catches it, so the interpreter
\* writes the traceback to stderr and the process exits with status 1
SignRaises ==
    /\ exit_code = Running
    /\ pc = 30
    /\ stderr' = Append(stderr, "Traceback")
    /\ exit_code' = 1
    /\ UNCHANGED <<clock, tz, ticks, pc, expiration_time, issued_at, payload,
                   token, stdout>>

\* lines 32-48: one print statement
PrintStatement ==
    /\ exit_code = Running
    /\ pc \in FirstPrint..LastPrint
    /\ stdout' = Append(stdout, PrintLine(pc))
    /\ pc' = pc + 1
    /\ UNCHANGED <<clock, tz, ticks, expiration_time, issued_at, payload,
                   token, stderr, exit_code>>

\* end of file: the interpreter exits with status 0
Exit ==
    /\ exit_code = Running
    /\ pc = LastPrint + 1
    /\ exit_code' = 0
    /\ UNCHANGED <<clock, tz, ticks, pc, expiration_time, issued_at, payload,
                   token, stdout, stderr>>

Next ==
    \/ Tick
    \/ Line17
    \/ Line18
    \/ Line20
    \/ SignReturns
    \/ SignRaises
    \/ PrintStatement
    \/ Exit

Spec == Init /\ [][Next]_vars

\* a straight-line, single-threaded script runs its next statement until it
\* ends: fairness on the program's own steps (not on the clock)
Program ==
    \/ Line17
    \/ Line18
    \/ Line20
    \/ SignReturns
    \/ SignRaises
    \/ PrintStatement
    \/ Exit

FairSpec == Spec /\ WF_vars(Program)

-----------------------------------------------------------------------------
(* Properties *)

PayloadBuilt == payload # NoPayload

Signed == token # NoToken

SigningFailed == stderr # <<>>

Terminated == exit_code # Running

\* the first clock reading (line 17), recovered from expiration_time
FirstReading == PlusDays(expiration_time, 0 - ValidityDays)

\* the second clock reading (line 18)
SecondReading == issued_at

\* C1: in every run, exp - iat of the payload is exactly 365 * 86400 seconds,
\* whatever the clock does between the start of the run and signing.
C1_ValidityIsExactly365Days ==
    PayloadBuilt => payload.exp - payload.iat = 31536000

\* C2: under a fixed clock T in whole seconds (the same at every read) the
\* payload has iat = T and exp = T + 365 days; T = 1704067200 gives
\* iat = 1704067200 and exp = 1735603200.
C2_FixedClockDeterminism ==
    (PayloadBuilt /\ ticks = 0 /\ clock.us = 0) =>
        /\ payload.iat = clock.sec
        /\ payload.exp = clock.sec + 31536000
        /\ (clock.sec = 1704067200 =>
               payload.iat = 1704067200 /\ payload.exp = 1735603200)

\* C3: the claims mapping handed to the signing step has exactly the keys
\* sub, email, username, role, exp, iat, with sub = "admin",
\* email = username = "admin@xeno.com" and role = "admin", whatever the clock.
C3_IdentityClaims ==
    /\ PayloadBuilt =>
          /\ DOMAIN payload = {"sub", "email", "username", "role", "exp", "iat"}
          /\ payload.sub = "admin"
          /\ payload.email = "admin@xeno.com"
          /\ payload.username = "admin@xeno.com"
          /\ payload.role = "admin"
    /\ Signed => token.claims = payload

C3_Witness ==
    /\ Signed
    /\ token.claims.sub = "admin"
    /\ clock # issued_at

\* the printed report, line by line: <<mark, text, kind of formatted value>>
ExpectedReport ==
    << <<"", "=", "times">>,
       <<"lock", " FRESH JWT TOKEN GENERATED", "none">>,
       <<"", "=", "times">>,
       <<"", "Token: ", "token">>,
       <<"", "", "none">>,
       <<"calendar", " Token Details:", "none">>,
       <<"bullet", " Issued At: ", "datetime">>,
       <<"bullet", " Expires At: ", "datetime">>,
       <<"bullet", " Valid For: 365 days", "none">>,
       <<"bullet", " User: ", "str">>,
       <<"bullet", " Role: ", "str">>,
       <<"", "", "none">>,
       <<"siren", " IMPORTANT:", "none">>,
       <<"", "1. Use this as your ADMIN_JWT_TOKEN in Railway environment variables", "none">>,
       <<"", "2. Make sure JWT_SECRET matches the secret_key used here", "none">>,
       <<"", "3. Remove the old expired ADMIN_JWT_TOKEN from Railway", "none">>,
       <<"", "=", "times">> >>

LineShape(l) == <<l.mark, l.text, l.arg.kind>>

\* C5: nothing is written to standard output before signing has succeeded; a
\* run whose signing fails leaves the output empty and exits non-zero; a run
\* whose signing succeeds prints the full report and exits 0.
C5_ReportOnlyAfterSigning ==
    /\ [](~Signed => stdout = <<>>)
    /\ [](SigningFailed =>
             /\ ~Signed
             /\ stdout = <<>>
             /\ exit_code \notin {0, Running})
    /\ [](Terminated /\ Signed => exit_code = 0 /\ Len(stdout) = 17)
    /\ (Signed ~> (exit_code = 0 /\ Len(stdout) = 17))

C5_Witness ==
    /\ SigningFailed
    /\ Terminated
    /\ pc = 30

\* C8: on a successful run standard output holds exactly 17 lines in this
\* order: banner of 60 "=", title, banner, token, blank, "Token Details",
\* the bullets issued-at, expiration, validity, user, role, blank,
\* "IMPORTANT", reminders 1, 2, 3, closing banner of 60 "=".
C8_ReportOrder ==
    /\ Len(stdout) <= 17
    /\ \A i \in 1..Len(stdout) :
          /\ LineShape(stdout[i]) = ExpectedReport[i]
          /\ i \in {1, 3, 17} => stdout[i].arg.n = 60
    /\ exit_code = 0 => Len(stdout) = 17

C8_Witness ==
    /\ exit_code = 0
    /\ Len(stdout) = 17
    /\ stdout[17].text = "="

\* lexicographic order on [sec, us] readings
NotBefore(b, a) == b.sec > a.sec \/ (b.sec = a.sec /\ b.us >= a.us)

SameUtcOffset ==
    UtcOffset(tz, expiration_time.sec) = UtcOffset(tz, issued_at.sec)

\* whole seconds between the two readings: floor(t2) - floor(t1)
ElapsedWholeSeconds == SecondReading.sec - FirstReading.sec

====
